---- MODULE Spec2Model ----
(***************************************************************************)
(* FM synthesizer (src/src/main.rs): the ADSR Envelope, the Operator, the  *)
(* 4-operator FMSynth chain, and the two threads (audio callback and UI    *)
(* update) that share the engine behind one Mutex.                         *)
(*                                                                         *)
(* Numbers.  The program computes in f32.  The model computes in exact     *)
(* fixed point:                                                            *)
(*   - time is counted in ticks; dt, attack, decay and release are whole   *)
(*     numbers of ticks;                                                   *)
(*   - an envelope level is an integer in 0..One, where One stands for the *)
(*     literal 1.0; One is a multiple of every duration and of SusDen, so  *)
(*     that for a sustain of k/SusDen every rate dt/attack,                *)
(*     dt*(1-sustain)/decay, dt*sustain/release is a whole number of level *)
(*     units; for any other sustain the amount to add or subtract rounds  *)
(*     to the nearest level unit, as an f32 sum rounds to the nearest f32: *)
(*     an amount below half a unit is absorbed;                            *)
(*   - a sample (an operator's output, a modulation input) is an integer   *)
(*     in units of 2^-FracBits; a decimal parameter (amp, ratio, feedback) *)
(*     is an integer in thousandths; an oscillator phase is an integer     *)
(*     number of ticks, PhaseRes ticks to the full circle 2*PI; products   *)
(*     and quotients of these round toward zero.                           *)
(***************************************************************************)
EXTENDS Integers, Naturals, Sequences, FiniteSets, TLC

(* ------------------------------ bounds -------------------------------- *)
\* longest attack / decay / release, in ticks
MaxDur == 3
\* longest time step handed to advance, in ticks
MaxDt == 2
\* sustain takes the values k/SusDen, k in 0..SusDen
SusDen == 2
\* longest buffer handed to one audio callback
MaxBlock == 2
\* samples rendered in one behaviour of the engine
MaxSamples == 2
\* times the widget that is moved in one behaviour of the engine is moved
MaxEdits == 1
\* a sample is counted in units of 2^-FracBits
FracBits == 18
\* phase ticks to the full circle
PhaseRes == 16
\* ticks for which a release is followed after note_off
MaxHold == 6
\* decimal parameters are counted in thousandths
Milli == 1000
\* envelope time is counted in ticks, this many to the second
TicksPerSecond == 100
\* the sample rate the audio device negotiated, in Hz
SampleRate == 100

(* --------------------------- number helpers --------------------------- *)
RECURSIVE GCD(_, _)
GCD(a, b) == IF b = 0 THEN a ELSE GCD(b, a % b)

LCM(a, b) == (a * b) \div GCD(a, b)

RECURSIVE LCMUpTo(_)
LCMUpTo(n) == IF n <= 1 THEN 1 ELSE LCM(n, LCMUpTo(n - 1))

\* the f32 literal 1.0 of the envelope, in level units
One == Milli * SusDen * LCMUpTo(MaxDur)

RECURSIVE Pow2(_)
Pow2(n) == IF n <= 0 THEN 1 ELSE 2 * Pow2(n - 1)

\* the sample value 1.0
Q == Pow2(FracBits)

\* a / b rounded toward zero, b > 0
TruncDiv(a, b) == IF a >= 0 THEN a \div b ELSE -((-a) \div b)

\* the remainder of a by b with the sign of a, as the operator % on f32
Rem(a, b) == a - b * TruncDiv(a, b)

\* a / b rounded to the nearest integer, halves away from zero, as f32::round
RoundDiv(a, b) ==
    IF a >= 0 THEN (2 * a + b) \div (2 * b) ELSE -((2 * (-a) + b) \div (2 * b))

\* f32::clamp
clamp(x, lo, hi) == IF x < lo THEN lo ELSE IF x > hi THEN hi ELSE x

Durations == 1..MaxDur
Dts == 1..MaxDt
SustainLevels == {k * (One \div SusDen) : k \in 0..SusDen}

OpIds == 0..3

VARIABLES
    env,        \* one Envelope: attack, decay, sustain, release, phase, level, active
    pre,        \* the envelope as it was before the last operation on it
    last,       \* the last operation applied to env
    relTime,    \* ticks advanced since note_off with nothing else in between; -1: not tracked
    clean,      \* TRUE from note_on while only advance has been applied since
    advances,   \* advance calls since the last note_on, counted up to 2; -1: no note_on yet
    synth,      \* the FMSynth behind the Mutex: ops (4 Operators) and sr
    locked,     \* the Mutex is held
    apc,        \* audio callback: "idle", "render" (inside render_block), "done"
    buf,        \* the buffer the callback fills
    slot,       \* index of the slot being produced (1-based)
    k,          \* the operator whose sample call comes next in the slot
    m,          \* the locals m3, m2, m1 of render_block
    upc,        \* App::update: "idle", "panels", "button", "fan", "end"
    panel,      \* the operator panel the update loop is at
    fan,        \* the operator FMSynth::note_on / note_off reaches next
    note_on,    \* App.note_on
    heard,      \* per operator: the last note event its envelope received was a note_on
    rendered,   \* sample slots rendered so far
    edits,      \* slider edits made so far
    live,       \* the widget moved in this behaviour, <<operator, field>>; <<>>: none yet
    calls,      \* the sample calls of the current block, in order
    startEnv,   \* the four envelopes as they were when the block started
    arg,        \* a direct call of Operator::sample or Operator::crush: its inputs
    res         \* the values that call, and the call repeated on its result, returned

envVars == <<env, pre, last, relTime, clean, advances>>

audioVars == <<apc, buf, slot, k, m, calls, startEnv, rendered>>

uiVars == <<upc, panel, fan, note_on, heard, edits, live>>

engVars == <<synth, locked, apc, buf, slot, k, m, upc, panel, fan, note_on,
             heard, rendered, edits, live, calls, startEnv>>

pureVars == <<arg, res>>

vars == <<env, pre, last, relTime, clean, advances, synth, locked, apc, buf, slot, k, m, upc,
          panel, fan, note_on, heard, rendered, edits, live, calls, startEnv, arg, res>>

(* ------------------------------ Envelope ------------------------------ *)
\* Envelope::new
Envelope_new(attack, decay, sustain, release) ==
    [attack |-> attack, decay |-> decay, sustain |-> sustain, release |-> release,
     phase |-> 0, level |-> 0, active |-> FALSE]

\* a note_on that restarts the stage but forgets to reset the level
Envelope_note_on_keeps_level(e) == [e EXCEPT !.phase = 0, !.active = TRUE]

\* Envelope::note_on
Envelope_note_on(e) == [e EXCEPT !.phase = 0, !.level = 0, !.active = TRUE]

\* a note_off that switches the envelope off at once, at the level it has
Envelope_note_off_deactivates(e) == [e EXCEPT !.phase = 3, !.active = FALSE]

\* a note_off that also silences the envelope at once
Envelope_note_off_zeroes(e) == [e EXCEPT !.phase = 3, !.level = 0]

\* Envelope::note_off: only the phase field is written
Envelope_note_off(e) == [e EXCEPT !.phase = 3]

\* an attack arm that spends the same call on the decay ramp once it has reached
\* 1.0, and so can pass through Decay within one call
advance_attack_falls_through(e, dt) ==
    LET l == e.level + RoundDiv(dt * One, e.attack)
        d == One - RoundDiv(dt * (One - e.sustain), e.decay)
    IN  IF l >= One
        THEN IF d <= e.sustain THEN [e EXCEPT !.level = e.sustain, !.phase = 2]
                               ELSE [e EXCEPT !.level = d, !.phase = 1]
        ELSE [e EXCEPT !.level = l]

\* an attack arm without the clamp to 1.0
advance_attack_unclamped(e, dt) ==
    LET l == e.level + RoundDiv(dt * One, e.attack)
    IN  IF l >= One THEN [e EXCEPT !.level = l, !.phase = 1]
                    ELSE [e EXCEPT !.level = l]

\* match arm 0.0 of Envelope::advance
advance_attack(e, dt) ==
    LET l == e.level + RoundDiv(dt * One, e.attack)
    IN  IF l >= One THEN [e EXCEPT !.level = One, !.phase = 1]
                    ELSE [e EXCEPT !.level = l]

\* a decay arm without the clamp to sustain
advance_decay_unclamped(e, dt) ==
    LET l == e.level - RoundDiv(dt * (One - e.sustain), e.decay)
    IN  IF l <= e.sustain THEN [e EXCEPT !.level = l, !.phase = 2]
                          ELSE [e EXCEPT !.level = l]

\* match arm 1.0 of Envelope::advance
advance_decay(e, dt) ==
    LET l == e.level - RoundDiv(dt * (One - e.sustain), e.decay)
    IN  IF l <= e.sustain THEN [e EXCEPT !.level = e.sustain, !.phase = 2]
                          ELSE [e EXCEPT !.level = l]

\* a sustain arm that times out into release
advance_sustain_times_out(e, dt) == [e EXCEPT !.phase = 3]

\* match arm 2.0 of Envelope::advance
advance_sustain(e, dt) == e

\* match arm 3.0 of Envelope::advance
advance_release(e, dt) ==
    LET l == e.level - RoundDiv(dt * e.sustain, e.release)
    IN  IF l <= 0 THEN [e EXCEPT !.level = 0, !.active = FALSE]
                  ELSE [e EXCEPT !.level = l]

\* an advance without the early return for an inactive envelope
Envelope_advance_no_guard(e, dt) ==
    CASE e.phase = 0 -> advance_attack(e, dt)
      [] e.phase = 1 -> advance_decay(e, dt)
      [] e.phase = 2 -> advance_sustain(e, dt)
      [] e.phase = 3 -> advance_release(e, dt)
      [] OTHER -> e

\* Envelope::advance
Envelope_advance(e, dt) ==
    IF ~e.active THEN e
    ELSE CASE e.phase = 0 -> advance_attack(e, dt)
           [] e.phase = 1 -> advance_decay(e, dt)
           [] e.phase = 2 -> advance_sustain(e, dt)
           [] e.phase = 3 -> advance_release(e, dt)
           [] OTHER -> e

\* the stage the spec names, read off the fields active and phase
Stage(e) ==
    IF ~e.active THEN "Idle"
    ELSE CASE e.phase = 0 -> "Attack"
           [] e.phase = 1 -> "Decay"
           [] e.phase = 2 -> "Sustain"
           [] OTHER -> "Release"

Params(e) == <<e.attack, e.decay, e.sustain, e.release>>

(* ------------------------------ Operator ------------------------------ *)
\* the headroom clamp 0.9 of Operator::sample, in thousandths
Headroom == 900

\* f32::sin of a phase given in ticks, in sample units: Bhaskara's rational
\* approximation on each half circle, exact at 0, PI/2, PI and 3*PI/2
sin(t) ==
    LET N == PhaseRes
        w == (2 * t) % (2 * N)
        half(u) == (Q * 16 * u * (N - u)) \div (5 * N * N - 4 * u * (N - u))
    IN  IF w <= N THEN half(w) ELSE -half(w - N)

\* Operator::new
Operator_new(freq, amp, e, ratio, feedback, sync, bit_depth) ==
    [freq |-> freq, phase |-> 0, amp |-> amp, envelope |-> e, ratio |-> ratio,
     feedback |-> feedback, sync |-> sync, bit_depth |-> bit_depth]

\* a crush that adds half a step before rounding to the nearest step
Operator_crush_half_up(op, sample) ==
    LET step == Pow2(FracBits - op.bit_depth)
    IN  clamp(RoundDiv(sample + step \div 2, step) * step, -Q, Q)

\* Operator::crush
Operator_crush(op, sample) ==
    LET step == Pow2(FracBits - op.bit_depth)
    IN  clamp(RoundDiv(sample, step) * step, -Q, Q)

\* Operator::hard_sync
Operator_hard_sync(op, phase) == IF op.sync THEN Rem(phase, PhaseRes) ELSE phase

\* the phase an operator reaches in one sample call
sample_phase(op, dt, mod_in) ==
    LET \* mod_freq = freq * (ratio + mod_in), in Hz/1000
        mod_freq == op.freq * (op.ratio + TruncDiv(mod_in * Milli, Q))
        fb == TruncDiv(op.feedback * op.phase, Milli)
        inc == TruncDiv(PhaseRes * mod_freq * dt, Milli * TicksPerSecond)
    IN  Operator_hard_sync(op, op.phase + inc + fb)

\* an output stage without the headroom clamp
sample_output_unclipped(op, phase, level) ==
    LET gain == TruncDiv(op.amp * level, One)
        raw == TruncDiv(gain * sin(phase), Milli)
    IN  Operator_crush(op, raw)

\* the value an operator returns for a phase and an envelope level
sample_output(op, phase, level) ==
    LET \* amp * env, in thousandths; then times sin, in sample units
        gain == TruncDiv(op.amp * level, One)
        raw == TruncDiv(gain * sin(phase), Milli)
        clip == TruncDiv(Headroom * Q, Milli)
        clipped == clamp(raw, -clip, clip)
    IN  Operator_crush(op, clipped)

\* Operator::sample: the operator after the call, and the value returned
Operator_sample(op, dt, mod_in) ==
    LET ph == sample_phase(op, dt, mod_in)
        e == Envelope_advance(op.envelope, dt)
    IN  [op |-> [op EXCEPT !.phase = ph, !.envelope = e],
         out |-> sample_output(op, ph, e.level)]

(* ------------------------------- FMSynth ------------------------------ *)
\* a duration given in milliseconds, in ticks
Ticks(ms) == (ms * TicksPerSecond) \div Milli

\* FMSynth::new
FMSynth_new(sr) ==
    LET e == Envelope_new(Ticks(10), Ticks(50), (600 * One) \div Milli, Ticks(200))
        ratios == <<1000, 1618, 2414, 3732>>
    IN  [ops |-> [i \in OpIds |->
                    CASE i = 0 -> Operator_new(440, 1000, e, ratios[1], 0, FALSE, 16)
                      [] i = 1 -> Operator_new(220, 800, e, ratios[2], 50, TRUE, 12)
                      [] i = 2 -> Operator_new(110, 600, e, ratios[3], 100, TRUE, 10)
                      [] i = 3 -> Operator_new(55, 400, e, ratios[4], 150, TRUE, 8)],
         sr |-> sr]

\* a note loop that starts at operator 1 and never reaches operator 0
FMSynth_note_at_skips_carrier(s, i, on) ==
    IF i = 0 THEN s
    ELSE [s EXCEPT !.ops[i].envelope =
             IF on THEN Envelope_note_on(@) ELSE Envelope_note_off(@)]

\* one turn of the loop of FMSynth::note_on / FMSynth::note_off, at operator i
FMSynth_note_at(s, i, on) ==
    [s EXCEPT !.ops[i].envelope =
        IF on THEN Envelope_note_on(@) ELSE Envelope_note_off(@)]

\* dt of FMSynth::render_block, in ticks
render_dt(s) == TicksPerSecond \div s.sr

\* every operator gets the output of operator 3
ChainInput_always_m3(kk, mm) == IF kk = 3 THEN 0 ELSE mm[3]

\* the modulation input render_block hands to operator kk: 0.0 for operator 3,
\* the local m3 for operator 2, m2 for operator 1, m1 for operator 0
ChainInput(kk, mm) == IF kk = 3 THEN 0 ELSE mm[kk + 1]

NoLocals == [i \in 1..3 |-> 0]

\* no direct call of an operator's functions is under way
NoCall == arg = [fn |-> "none"] /\ res = <<>>

Envelopes(s) == [i \in OpIds |-> s.ops[i].envelope]

(* --------------------- the engine and its two threads ----------------- *)
InitEngineVars ==
    /\ synth = FMSynth_new(SampleRate)
    /\ locked = FALSE
    /\ apc = "idle"
    /\ buf = <<>>
    /\ slot = 1
    /\ k = 3
    /\ m = NoLocals
    /\ upc = "idle"
    /\ panel = 0
    /\ fan = 0
    /\ note_on = FALSE
    /\ heard = [i \in OpIds |-> FALSE]
    /\ rendered = 0
    /\ edits = 0
    /\ live = <<>>
    /\ calls = <<>>
    /\ startEnv = Envelopes(synth)

\* the audio callback takes the Mutex without waiting for it to be free
AudioLock_without_mutex ==
    /\ apc = "idle"
    /\ \E L \in 0..MaxBlock :
           /\ rendered + L <= MaxSamples
           /\ buf' = [i \in 1..L |-> 0]
           /\ apc' = IF L = 0 THEN "done" ELSE "render"
    /\ locked' = TRUE
    /\ slot' = 1
    /\ k' = 3
    /\ m' = NoLocals
    /\ calls' = <<>>
    /\ startEnv' = Envelopes(synth)
    /\ UNCHANGED <<synth, rendered, uiVars, envVars, pureVars>>

\* a render_block that restarts every oscillator at phase 0 when it is entered
AudioLock_restarts_phases ==
    /\ apc = "idle"
    /\ ~locked
    /\ \E L \in 0..MaxBlock :
           /\ rendered + L <= MaxSamples
           /\ buf' = [i \in 1..L |-> 0]
           /\ apc' = IF L = 0 THEN "done" ELSE "render"
    /\ locked' = TRUE
    /\ slot' = 1
    /\ k' = 3
    /\ m' = NoLocals
    /\ calls' = <<>>
    /\ startEnv' = Envelopes(synth)
    /\ synth' = [synth EXCEPT !.ops = [i \in OpIds |-> [synth.ops[i] EXCEPT !.phase = 0]]]
    /\ UNCHANGED <<rendered, uiVars, envVars, pureVars>>

\* a render_block whose loop tests its condition after the body: the body runs
\* once even for an empty buffer
AudioLock_runs_body_first ==
    /\ apc = "idle"
    /\ ~locked
    /\ \E L \in 0..MaxBlock :
           /\ rendered + L <= MaxSamples
           /\ buf' = [i \in 1..L |-> 0]
           /\ apc' = "render"
    /\ locked' = TRUE
    /\ slot' = 1
    /\ k' = 3
    /\ m' = NoLocals
    /\ calls' = <<>>
    /\ startEnv' = Envelopes(synth)
    /\ UNCHANGED <<synth, rendered, uiVars, envVars, pureVars>>

\* the audio callback: synth_a.lock().unwrap(), then render_block is entered with
\* the buffer the device hands over
AudioLock ==
    /\ apc = "idle"
    /\ ~locked
    /\ \E L \in 0..MaxBlock :
           /\ rendered + L <= MaxSamples
           /\ buf' = [i \in 1..L |-> 0]
           /\ apc' = IF L = 0 THEN "done" ELSE "render"
    /\ locked' = TRUE
    /\ slot' = 1
    /\ k' = 3
    /\ m' = NoLocals
    /\ calls' = <<>>
    /\ startEnv' = Envelopes(synth)
    /\ UNCHANGED <<synth, rendered, uiVars, envVars, pureVars>>

\* one sample call of the loop body of render_block
RenderSample ==
    /\ apc = "render"
    /\ LET mod_in == ChainInput(k, m)
           r == Operator_sample(synth.ops[k], render_dt(synth), mod_in)
       IN  /\ synth' = [synth EXCEPT !.ops[k] = r.op]
           /\ calls' = Append(calls, <<slot, k, mod_in, r.out>>)
           /\ IF k > 0
              THEN /\ m' = [m EXCEPT ![k] = r.out]
                   /\ k' = k - 1
                   /\ UNCHANGED <<buf, slot, rendered, apc>>
              ELSE /\ buf' = [buf EXCEPT ![slot] = r.out]
                   /\ m' = NoLocals
                   /\ k' = 3
                   /\ slot' = slot + 1
                   /\ rendered' = rendered + 1
                   /\ apc' = IF slot = Len(buf) THEN "done" ELSE "render"
    /\ UNCHANGED <<locked, startEnv, uiVars, envVars, pureVars>>

\* the callback returns but its guard is leaked: the Mutex stays locked
AudioUnlock_leaks_guard ==
    /\ apc = "done"
    /\ apc' = "idle"
    /\ locked' = locked
    /\ buf' = <<>>
    /\ calls' = <<>>
    /\ startEnv' = Envelopes(synth)
    /\ UNCHANGED <<synth, slot, k, m, rendered, uiVars, envVars, pureVars>>

\* the callback returns: the guard is dropped and the device takes the buffer
AudioUnlock ==
    /\ apc = "done"
    /\ apc' = "idle"
    /\ locked' = FALSE
    /\ buf' = <<>>
    /\ calls' = <<>>
    /\ startEnv' = Envelopes(synth)
    /\ UNCHANGED <<synth, slot, k, m, rendered, uiVars, envVars, pureVars>>

\* App::update never takes the Mutex
UpdateLock_without_mutex ==
    /\ upc = "idle"
    /\ upc' = "panels"
    /\ panel' = 0
    /\ UNCHANGED <<locked, synth, fan, note_on, heard, edits, live, audioVars, envVars, pureVars>>

\* App::update: self.synth.lock().unwrap()
UpdateLock ==
    /\ upc = "idle"
    /\ ~locked
    /\ locked' = TRUE
    /\ upc' = "panels"
    /\ panel' = 0
    /\ UNCHANGED <<synth, fan, note_on, heard, edits, live, audioVars, envVars, pureVars>>

\* the values a slider or checkbox of an operator panel can be moved to
SliderValues(f) ==
    CASE f = "freq" -> {20, 2000}
      [] f = "amp" -> {0, 2 * Milli}
      [] f = "ratio" -> {Milli \div 10, 5 * Milli}
      [] f = "feedback" -> {0, Milli \div 2}
      [] f = "sync" -> BOOLEAN
      [] f = "bit_depth" -> {8, 16}
      [] f = "attack" -> Durations
      [] f = "decay" -> Durations
      [] f = "sustain" -> SustainLevels
      [] f = "release" -> Durations

OperatorFields == {"freq", "amp", "ratio", "feedback", "sync", "bit_depth"}

EnvelopeFields == {"attack", "decay", "sustain", "release"}

FieldOf(op, f) == IF f \in EnvelopeFields THEN op.envelope[f] ELSE op[f]

SetField(op, f, v) ==
    IF f \in EnvelopeFields THEN [op EXCEPT !.envelope[f] = v] ELSE [op EXCEPT ![f] = v]

\* one turn of the panel loop of App::update: the panel of one operator is shown
\* and at most one of its widgets is moved
UpdatePanel ==
    /\ upc = "panels"
    /\ \/ UNCHANGED <<synth, edits, live>>
       \/ /\ edits < MaxEdits
          /\ edits' = edits + 1
          /\ \E f \in OperatorFields \cup EnvelopeFields :
                 /\ live \in {<<>>, <<panel, f>>}
                 /\ live' = <<panel, f>>
                 /\ \E v \in SliderValues(f) \ {FieldOf(synth.ops[panel], f)} :
                        synth' = [synth EXCEPT !.ops[panel] = SetField(@, f, v)]
    /\ IF panel = 3 THEN upc' = "button" /\ panel' = 0
                    ELSE upc' = "panels" /\ panel' = panel + 1
    /\ UNCHANGED <<locked, fan, note_on, heard, audioVars, envVars, pureVars>>

\* the note button of App::update: clicked or not
UpdateButton ==
    /\ upc = "button"
    /\ \/ /\ note_on' = ~note_on
          /\ upc' = "fan"
       \/ /\ note_on' = note_on
          /\ upc' = "end"
    /\ fan' = 0
    /\ UNCHANGED <<synth, locked, panel, heard, edits, live, audioVars, envVars, pureVars>>

\* one turn of the loop of FMSynth::note_on / FMSynth::note_off
UpdateNote ==
    /\ upc = "fan"
    /\ synth' = FMSynth_note_at(synth, fan, note_on)
    /\ heard' = [heard EXCEPT ![fan] = note_on]
    /\ IF fan = 3 THEN upc' = "end" /\ fan' = 0
                  ELSE upc' = "fan" /\ fan' = fan + 1
    /\ UNCHANGED <<locked, panel, note_on, edits, live, audioVars, envVars, pureVars>>

\* the closure of App::update returns and the guard is dropped
UpdateUnlock ==
    /\ upc = "end"
    /\ upc' = "idle"
    /\ locked' = FALSE
    /\ UNCHANGED <<synth, panel, fan, note_on, heard, edits, live, audioVars, envVars, pureVars>>

InitEngine ==
    /\ InitEngineVars
    /\ NoCall
    /\ env = Envelope_new(Ticks(10), Ticks(50), (600 * One) \div Milli, Ticks(200))
    /\ pre = env
    /\ last = "new"
    /\ relTime = -1
    /\ clean = FALSE
    /\ advances = -1

NextEngine ==
    \/ AudioLock
    \/ RenderSample
    \/ AudioUnlock
    \/ UpdateLock
    \/ UpdatePanel
    \/ UpdateButton
    \/ UpdateNote
    \/ UpdateUnlock

SpecEngine == InitEngine /\ [][NextEngine]_vars

TypeEngine ==
    /\ \A i \in OpIds : synth.ops[i].envelope.level \in 0..One
    /\ Len(buf) <= MaxBlock
    /\ rendered <= MaxSamples

(* -------------------------- claims on the engine ---------------------- *)
RECURSIVE AdvanceN(_, _, _)
AdvanceN(e, dt, n) == IF n = 0 THEN e ELSE AdvanceN(Envelope_advance(e, dt), dt, n - 1)

\* C8: inside render_block the sample calls come slot by slot in increasing
\* order, four to a slot, on operators 3, 2, 1, 0; operator 3 is fed 0.0 and each
\* other operator the value the call before it returned; the slot receives the
\* value operator 0 returned; when the block is complete each envelope has been
\* advanced as many times as the buffer has slots.
C8_RenderOrder ==
    apc \in {"render", "done"} =>
        /\ \A n \in 1..Len(calls) :
               /\ calls[n][1] = ((n - 1) \div 4) + 1
               /\ calls[n][2] = 3 - ((n - 1) % 4)
               /\ calls[n][3] = IF (n - 1) % 4 = 0 THEN 0 ELSE calls[n - 1][4]
        /\ Len(calls) = 4 * (slot - 1) + (3 - k)
        /\ \A s \in 1..(slot - 1) : buf[s] = calls[4 * s][4]
        /\ (apc = "done" =>
               /\ Len(calls) = 4 * Len(buf)
               /\ slot = Len(buf) + 1
               /\ \A i \in OpIds :
                      synth.ops[i].envelope = AdvanceN(startEnv[i], render_dt(synth), Len(buf)))

\* C8 witness: a complete block of two slots in which the operators sounded: the
\* three modulation inputs of the second slot are non-zero and differ from each other.
C8_Witness ==
    /\ apc = "done"
    /\ Len(buf) = 2
    /\ calls[6][3] # 0 /\ calls[7][3] # 0 /\ calls[8][3] # 0
    /\ calls[6][3] # calls[7][3] /\ calls[7][3] # calls[8][3]
    /\ buf[2] # 0
    /\ \E i \in OpIds : synth.ops[i].envelope.level # startEnv[i].level

OpSettings(s) ==
    [i \in OpIds |-> <<s.ops[i].freq, s.ops[i].amp, s.ops[i].ratio, s.ops[i].feedback,
                       s.ops[i].sync, s.ops[i].bit_depth, Params(s.ops[i].envelope)>>]

Phases(s) == [i \in OpIds |-> s.ops[i].phase]

\* C9: the audio callback and App::update are never inside the engine together and
\* each holds the Mutex for as long as it is inside; while a block is being
\* rendered no widget value and no note event reaches the engine (an envelope
\* changes only by advance); while an update is under way no sample is rendered.
C9_LockHeldThroughout ==
    /\ [](/\ ~(apc # "idle" /\ upc # "idle")
          /\ ((apc # "idle" \/ upc # "idle") => locked))
    /\ [][/\ (apc # "idle" /\ apc' # "idle") =>
                 /\ OpSettings(synth') = OpSettings(synth)
                 /\ heard' = heard
                 /\ note_on' = note_on
                 /\ \A i \in OpIds :
                        synth'.ops[i].envelope \in
                            {synth.ops[i].envelope,
                             Envelope_advance(synth.ops[i].envelope, render_dt(synth))}
          /\ (upc # "idle" /\ upc' # "idle") =>
                 /\ rendered' = rendered
                 /\ Phases(synth') = Phases(synth)
                 /\ buf' = buf
                 /\ calls' = calls]_vars

\* C9 witness: the second slot of a block is being rendered after an update that
\* moved a widget and clicked the note button.
C9_Witness ==
    /\ apc = "render"
    /\ slot = 2
    /\ edits > 0
    /\ note_on
    /\ upc = "idle"

\* C10: whenever the audio callback is inside render_block, the four envelopes
\* have all received the same last note event.
C10_NoteEventAtomic ==
    apc # "idle" => \A i, j \in OpIds : heard[i] = heard[j]

\* C10 witness: a sample is being rendered after a note_on reached all four
\* envelopes and before the update that sent it was followed by another.
C10_Witness ==
    /\ apc = "render"
    /\ k = 1
    /\ \A i \in OpIds : heard[i] /\ synth.ops[i].envelope.active

\* C11: a callback that is handed an empty buffer enters render_block, runs no
\* loop turn and returns: from taking the Mutex to dropping it no field of the
\* engine changes (phases, operator parameters, envelope level, stage and active
\* flag, sample rate), no sample call is made and no slot is counted.
C11_EmptyBlockNoEffect ==
    [][((apc = "idle" /\ apc' # "idle" /\ buf' = <<>>) \/
        (apc # "idle" /\ apc' # apc /\ buf = <<>>)) =>
           /\ synth' = synth
           /\ rendered' = rendered
           /\ calls' = <<>>
           /\ apc' = (IF apc = "idle" THEN "done" ELSE "idle")]_vars

\* C11 witness: an empty block has been rendered while an envelope is on its way
\* down the decay ramp and the phases are away from zero, so that one loop turn
\* would have changed the engine.
C11_Witness ==
    /\ apc = "done"
    /\ buf = <<>>
    /\ rendered >= 1
    /\ synth.ops[0].phase # 0
    /\ \E i \in OpIds : Stage(synth.ops[i].envelope) = "Decay"

\* the steps the audio callback still has to take before it is outside again:
\* the sample calls left in the buffer and the return
AudioWork ==
    CASE apc = "render" -> 4 * (Len(buf) - slot) + k + 2
      [] apc = "done" -> 1
      [] OTHER -> 0

\* the steps App::update still has to take at most before it is outside again
UpdateWork ==
    CASE upc = "panels" -> 10 - panel
      [] upc = "button" -> 6
      [] upc = "fan" -> 5 - fan
      [] upc = "end" -> 1
      [] OTHER -> 0

\* the engine with every widget left where it is, under the scheduling the two
\* threads get: a thread that is inside the engine keeps running (weak fairness
\* of its steps), and a thread that asks for the Mutex again and again while it
\* is free again and again gets it (strong fairness of the two lock steps)
InitEngineFair ==
    /\ synth = FMSynth_new(SampleRate)
    /\ locked = FALSE
    /\ apc = "idle" /\ buf = <<>> /\ slot = 1 /\ k = 3 /\ m = NoLocals
    /\ upc = "idle" /\ panel = 0 /\ fan = 0
    /\ note_on = FALSE
    /\ heard = [i \in OpIds |-> FALSE]
    /\ rendered = 0
    /\ edits = MaxEdits
    /\ live = <<>>
    /\ calls = <<>>
    /\ startEnv = Envelopes(synth)
    /\ NoCall
    /\ env = Envelope_new(Ticks(10), Ticks(50), (600 * One) \div Milli, Ticks(200))
    /\ pre = env
    /\ last = "new"
    /\ relTime = -1
    /\ clean = FALSE
    /\ advances = -1

SpecEngineFair ==
    /\ InitEngineFair
    /\ [][NextEngine]_vars
    /\ WF_vars(RenderSample) /\ WF_vars(AudioUnlock)
    /\ WF_vars(UpdatePanel) /\ WF_vars(UpdateButton)
    /\ WF_vars(UpdateNote) /\ WF_vars(UpdateUnlock)
    /\ SF_vars(AudioLock) /\ SF_vars(UpdateLock)

\* C14: a block that was started is rendered to its end: every step of the
\* callback brings it closer to its return, all L slots are written after 4*L
\* sample calls, and the callback then returns and drops the Mutex.  The same
\* holds of an update.  The Mutex is held only by a thread that is inside, and
\* each thread is inside again and again: neither waits for ever and no state
\* is a deadlock.
C14_BlocksRunToCompletion ==
    /\ (apc = "render") ~> (apc = "done")
    /\ (apc = "done") ~> (apc = "idle" /\ ~locked)
    /\ (upc # "idle") ~> (upc = "idle" /\ ~locked)
    /\ []<>(apc # "idle")
    /\ []<>(upc # "idle")
    /\ [](/\ (apc = "done" => (slot = Len(buf) + 1 /\ Len(calls) = 4 * Len(buf)))
          /\ (locked => (apc # "idle" \/ upc # "idle"))
          /\ AudioWork >= 0 /\ UpdateWork >= 0)
    /\ [][/\ (apc # "idle" /\ <<apc, slot, k>>' # <<apc, slot, k>>) =>
                 AudioWork' < AudioWork
          /\ (upc # "idle" /\ <<upc, panel, fan>>' # <<upc, panel, fan>>) =>
                 UpdateWork' < UpdateWork]_vars

\* C14 witness: a block of two slots has run to its end, with the last local
\* values non-zero, after an update had held the Mutex and returned.
C14_Witness ==
    /\ apc = "done"
    /\ Len(buf) = 2
    /\ slot = 3
    /\ AudioWork = 1
    /\ note_on
    /\ upc = "idle"
    /\ locked

\* the phase of an operator after n sample calls with modulation input 0.0
RECURSIVE PhaseN(_, _, _)
PhaseN(op, dt, n) ==
    IF n = 0 THEN op.phase
    ELSE sample_phase([op EXCEPT !.phase = PhaseN(op, dt, n - 1)], dt, 0)

C17_NoteFlagAgrees ==
    upc # "fan" =>
        \A i \in OpIds :
            IF note_on
            THEN Stage(synth.ops[i].envelope) \in {"Attack", "Decay", "Sustain"}
            ELSE Stage(synth.ops[i].envelope) \in {"Idle", "Release"}

\* C17 witness: the button was clicked on and, after a sample was rendered,
\* clicked off: the flag is false, the update has returned, and the envelopes are
\* in Release above level 0, one of them with a slider moved.
C17_Witness ==
    /\ upc = "idle"
    /\ ~note_on
    /\ rendered >= 1
    /\ edits > 0
    /\ \A i \in OpIds : /\ Stage(synth.ops[i].envelope) = "Release"
                         /\ synth.ops[i].envelope.level > 0

(* ----------------- one envelope under its whole interface ------------- *)
InitEnv ==
    /\ \E a \in Durations, d \in Durations, s \in SustainLevels, r \in Durations :
           env = Envelope_new(a, d, s, r)
    /\ pre = env
    /\ last = "new"
    /\ relTime = -1
    /\ clean = FALSE
    /\ advances = -1
    /\ InitEngineVars
    /\ NoCall

NoteOn ==
    /\ pre' = env
    /\ env' = Envelope_note_on(env)
    /\ last' = "note_on"
    /\ relTime' = -1
    /\ clean' = TRUE
    /\ advances' = 0
    /\ UNCHANGED <<engVars, pureVars>>

NoteOff ==
    /\ pre' = env
    /\ env' = Envelope_note_off(env)
    /\ last' = "note_off"
    /\ relTime' = IF env.active THEN 0 ELSE -1
    /\ clean' = FALSE
    /\ advances' = advances
    /\ UNCHANGED <<engVars, pureVars>>

Min(a, b) == IF a <= b THEN a ELSE b

Advance ==
    \E dt \in Dts :
        /\ pre' = env
        /\ env' = Envelope_advance(env, dt)
        /\ last' = "advance"
        /\ relTime' = IF relTime >= 0 THEN Min(relTime + dt, MaxDur) ELSE -1
        /\ clean' = clean
        /\ advances' = IF advances >= 0 THEN Min(advances + 1, 2) ELSE -1
        /\ UNCHANGED <<engVars, pureVars>>

\* the envelope sliders of App::update
EditAttack ==
    \E v \in Durations \ {env.attack} :
        /\ pre' = env /\ env' = [env EXCEPT !.attack = v]
        /\ last' = "edit" /\ relTime' = -1 /\ clean' = FALSE /\ advances' = advances
        /\ UNCHANGED <<engVars, pureVars>>

EditDecay ==
    \E v \in Durations \ {env.decay} :
        /\ pre' = env /\ env' = [env EXCEPT !.decay = v]
        /\ last' = "edit" /\ relTime' = -1 /\ clean' = FALSE /\ advances' = advances
        /\ UNCHANGED <<engVars, pureVars>>

EditSustain ==
    \E v \in SustainLevels \ {env.sustain} :
        /\ pre' = env /\ env' = [env EXCEPT !.sustain = v]
        /\ last' = "edit" /\ relTime' = -1 /\ clean' = FALSE /\ advances' = advances
        /\ UNCHANGED <<engVars, pureVars>>

EditRelease ==
    \E v \in Durations \ {env.release} :
        /\ pre' = env /\ env' = [env EXCEPT !.release = v]
        /\ last' = "edit" /\ relTime' = -1 /\ clean' = FALSE /\ advances' = advances
        /\ UNCHANGED <<engVars, pureVars>>

NextEnv ==
    \/ NoteOn
    \/ NoteOff
    \/ Advance
    \/ EditAttack
    \/ EditDecay
    \/ EditSustain
    \/ EditRelease

SpecEnv == InitEnv /\ [][NextEnv]_vars

(* ------------------------- claims on the envelope --------------------- *)
\* C1 (as stated): after note_off on an active envelope, the advance calls that
\* follow never raise the level, and once the time advanced since note_off
\* reaches release (ceil(release/dt) calls of step dt) the level is exactly 0
\* and the envelope is inactive.
C1_ReleaseWithinReleaseTime ==
    (last = "advance" /\ relTime >= 0) =>
        /\ env.level <= pre.level
        /\ (relTime >= env.release => (env.level = 0 /\ ~env.active))

\* C2: the level lies in [0,1] in every reachable state, whatever the order of
\* note_on, note_off, advance and parameter edits.
C2_LevelInUnitRange == env.level >= 0 /\ env.level <= One

\* C2 witness: a sustain edit raised sustain above the level in mid-decay, and
\* the next advance put the level at 1.0.
C2_Witness ==
    /\ last = "advance"
    /\ Stage(pre) = "Decay"
    /\ pre.level < pre.sustain
    /\ env.level = One

\* C3: advance moves the stage only along Attack->Decay, Decay->Sustain and
\* Release->Idle; it never leaves Sustain or Idle and never enters Release.
C3_AdvanceStageOrder ==
    last = "advance" =>
        /\ \/ Stage(env) = Stage(pre)
           \/ <<Stage(pre), Stage(env)>> \in
                  {<<"Attack", "Decay">>, <<"Decay", "Sustain">>, <<"Release", "Idle">>}
        /\ (Stage(pre) = "Sustain" => Stage(env) = "Sustain")
        /\ (Stage(env) = "Release" => Stage(pre) = "Release")

\* C3 witness: an advance that took the envelope from Decay to Sustain.
C3_Witness ==
    last = "advance" /\ Stage(pre) = "Decay" /\ Stage(env) = "Sustain"

\* C4: note_on from any state gives level 0, stage Attack, active, with the four
\* parameters untouched, and a second note_on changes nothing more.
C4_NoteOnResets ==
    last = "note_on" =>
        /\ env.level = 0
        /\ Stage(env) = "Attack"
        /\ env.active
        /\ Params(env) = Params(pre)
        /\ Envelope_note_on(env) = env
        /\ ((Stage(pre) = "Attack" /\ pre.level = 0) => env = pre)

\* C4 witness: note_on arriving in Release at a positive level.
C4_Witness ==
    last = "note_on" /\ Stage(pre) = "Release" /\ pre.level > 0

\* C5: note_off on an active envelope sets the stage to Release and leaves the
\* level, the active flag and the four parameters as they were.
C5_NoteOffFrame ==
    (last = "note_off" /\ pre.active) =>
        /\ Stage(env) = "Release"
        /\ env.level = pre.level
        /\ env.active = pre.active
        /\ Params(env) = Params(pre)

\* C5 witness: note_off arriving in Decay at a positive level.
C5_Witness ==
    last = "note_off" /\ Stage(pre) = "Decay" /\ env.level > 0

\* C6: advance and note_off leave an Idle envelope Idle, inactive, at level 0 and
\* with its parameters; only note_on makes an inactive envelope active.
C6_IdleUnaffected ==
    /\ (last \in {"advance", "note_off"} /\ ~pre.active) =>
           /\ Stage(env) = "Idle"
           /\ ~env.active
           /\ pre.level = 0
           /\ env.level = 0
           /\ Params(env) = Params(pre)
    /\ (~pre.active /\ env.active) => last = "note_on"

\* C6 witness: an advance on an envelope that is Idle after a note_off.
C6_Witness ==
    last = "advance" /\ ~pre.active /\ pre.phase = 3

\* C7: from note_on, under advance alone, the level never falls in Attack and
\* leaves Attack at exactly 1; it never rises in Decay, stays at or above sustain
\* and leaves Decay at exactly sustain; in Sustain it equals sustain.
C7_AttackDecaySustainShape ==
    /\ (clean /\ last = "note_on") => env.level = 0
    /\ clean => Stage(env) \in {"Attack", "Decay", "Sustain"}
    /\ (clean /\ last = "advance" /\ Stage(pre) = "Attack") =>
           /\ env.level >= pre.level
           /\ \/ Stage(env) = "Attack" /\ env.level < One
              \/ Stage(env) = "Decay" /\ env.level = One
    /\ (clean /\ last = "advance" /\ Stage(pre) = "Decay") =>
           /\ env.level <= pre.level
           /\ env.level >= env.sustain
           /\ \/ Stage(env) = "Decay" /\ env.level > env.sustain
              \/ Stage(env) = "Sustain" /\ env.level = env.sustain
    /\ (clean /\ last = "advance" /\ Stage(pre) = "Sustain") =>
           /\ Stage(env) = "Sustain"
           /\ env.level = env.sustain
           /\ pre.level = env.sustain

\* C7 witness: an uninterrupted run that held at a sustain strictly between 0 and 1
\* after a decay of more than one step.
C7_Witness ==
    /\ clean
    /\ last = "advance"
    /\ Stage(pre) = "Sustain"
    /\ env.level = env.sustain
    /\ env.sustain > 0 /\ env.sustain < One
    /\ env.decay > 1

\* C18: one advance call changes the stage at most once.  The call that
\* completes Attack leaves the envelope in Decay, however short the decay and
\* however long the step; so right after note_on the envelope is in Attack, after
\* one advance call it is not yet in Sustain, and Sustain is only ever entered
\* from Decay.
C18_OneStagePerAdvance ==
    /\ advances = 0 => Stage(env) \in {"Attack", "Release"}
    /\ advances = 1 => Stage(env) # "Sustain"
    /\ last = "advance" =>
           /\ (Stage(pre) = "Attack" => Stage(env) \in {"Attack", "Decay"})
           /\ (Stage(env) = "Sustain" => Stage(pre) \in {"Decay", "Sustain"})

\* C18 witness: the first advance after note_on completed an attack of one tick
\* with a decay of one tick and sustain 1.0 (the decay ramp has no height): the
\* envelope is in Decay at level 1.0, not in Sustain.
C18_Witness ==
    /\ advances = 1
    /\ last = "advance"
    /\ Stage(pre) = "Attack"
    /\ Stage(env) = "Decay"
    /\ env.attack = 1 /\ env.decay = 1
    /\ env.sustain = One
    /\ env.level = One

TypeEnv ==
    /\ env.level \in 0..One
    /\ env.phase \in 0..3
    /\ env.active \in BOOLEAN

(* ------------ direct calls of Operator::sample and Operator::crush ---------- *)
\* the range of the bit-depth slider
BitDepths == 8..16

\* amplitudes: silent, tiny, inside the slider range, its top, and beyond it
Amps == {0, 1, Milli \div 2, Milli, 2 * Milli, 4 * Milli}

\* envelope levels between 0.0 and 1.0, both ends and their neighbours included
Levels == {j * (One \div (2 * SusDen)) : j \in 0..(2 * SusDen)} \cup {1, One - 1}

\* samples in [-1.0, 1.0] for a bit depth: in the cells next to 0, in the middle
\* and next to 1.0, on a step, next to it, and around the half step
CrushInputs(bd) ==
    LET step == Pow2(FracBits - bd)
        offs == {0, 1, step \div 2 - 1, step \div 2, step \div 2 + 1, step - 1}
        cells == {0, 1, Pow2(bd - 1), Pow2(bd) - 1}
        mags == {a * step + r : a \in cells, r \in offs} \cup {Q}
    IN  mags \cup {-x : x \in mags}

\* the operator a direct call is made on: operator 0 of FMSynth::new with the
\* amplitude, bit depth and phase of the call, its envelope holding a level
CallOperator(a) ==
    LET e == [Envelope_new(Ticks(10), Ticks(50), a.level, Ticks(200))
                  EXCEPT !.phase = 2, !.level = a.level, !.active = TRUE]
    IN  [Operator_new(440, a.amp, e, Milli, 0, FALSE, a.bit_depth) EXCEPT !.phase = a.phase]

InitCalls ==
    /\ InitEngineVars
    /\ env = Envelope_new(Ticks(10), Ticks(50), (600 * One) \div Milli, Ticks(200))
    /\ pre = env
    /\ last = "new"
    /\ relTime = -1
    /\ clean = FALSE
    /\ advances = -1
    /\ res = <<>>
    /\ \/ \E a \in Amps, l \in Levels, ph \in 0..(PhaseRes - 1), bd \in BitDepths :
              arg = [fn |-> "sample", amp |-> a, level |-> l, phase |-> ph,
                     bit_depth |-> bd, x |-> 0]
       \/ \E bd \in BitDepths : \E x \in CrushInputs(bd) :
              arg = [fn |-> "crush", amp |-> Milli, level |-> One, phase |-> 0,
                     bit_depth |-> bd, x |-> x]

\* Operator::sample is called once
CallSample ==
    /\ arg.fn = "sample"
    /\ res = <<>>
    /\ res' = <<Operator_sample(CallOperator(arg), render_dt(synth), 0).out>>
    /\ UNCHANGED <<arg, engVars, envVars>>

\* Operator::crush is called on the input, and then on the value it returned
CallCrush ==
    /\ arg.fn = "crush"
    /\ Len(res) < 2
    /\ res' = Append(res, Operator_crush(CallOperator(arg),
                                          IF res = <<>> THEN arg.x ELSE res[Len(res)]))
    /\ UNCHANGED <<arg, engVars, envVars>>

NextCalls ==
    \/ CallSample
    \/ CallCrush

SpecCalls == InitCalls /\ [][NextCalls]_vars

\* C12: for an amplitude >= 0, an envelope level in [0,1] and a bit depth in
\* 8..16, the value Operator::sample returns is the raw product clamped to
\* [-0.9, 0.9] and rounded to the nearest multiple of 2^-bit_depth: a multiple of
\* the step, at most half a step beyond 0.9 in magnitude, and inside [-1, 1].
C12_SampleInUnitRange ==
    (arg.fn = "sample" /\ res # <<>>) =>
        LET out == res[1]
            step == Pow2(FracBits - arg.bit_depth)
            clip == TruncDiv(Headroom * Q, Milli)
        IN  /\ out >= -Q /\ out <= Q
            /\ out % step = 0
            /\ 2 * out <= 2 * clip + step
            /\ 2 * out >= -(2 * clip + step)

\* C12 witness: amplitude 4.0 at full level and 8 bits: the raw product is far
\* outside [-1, 1] and the value returned sits at the headroom.
C12_Witness ==
    /\ arg.fn = "sample"
    /\ res # <<>>
    /\ arg.amp = 4 * Milli
    /\ arg.level = One
    /\ arg.bit_depth = 8
    /\ res[1] > (Q \div 10) * 8

\* C13: for a fixed bit depth and a sample in [-1, 1], crush applied to the value
\* crush returned gives that value again.
C13_CrushIdempotent ==
    (arg.fn = "crush" /\ Len(res) = 2) => res[2] = res[1]

\* C13 witness: crush was applied twice to a negative sample that is not on a
\* step, so the first call moved it.
C13_Witness ==
    /\ arg.fn = "crush"
    /\ Len(res) = 2
    /\ arg.x < 0
    /\ res[1] # arg.x
    /\ res[1] # 0
    /\ arg.bit_depth = 12

(* ---------------- consecutive blocks with no update in between -------------- *)
\* one turn of the loop of render_block: the engine after it and the slot's value
render_slot(s) ==
    LET dt == render_dt(s)
        r3 == Operator_sample(s.ops[3], dt, 0)
        r2 == Operator_sample(s.ops[2], dt, r3.out)
        r1 == Operator_sample(s.ops[1], dt, r2.out)
        r0 == Operator_sample(s.ops[0], dt, r1.out)
    IN  [synth |-> [s EXCEPT !.ops = [i \in OpIds |->
                        CASE i = 3 -> r3.op [] i = 2 -> r2.op
                          [] i = 1 -> r1.op [] i = 0 -> r0.op]],
         out |-> r0.out]

\* FMSynth::render_block on a buffer of L slots, as one call: the engine after
\* it and the buffer
RECURSIVE render_block(_, _)
render_block(s, L) ==
    IF L = 0 THEN [synth |-> s, out |-> <<>>]
    ELSE LET r == render_slot(s)
             rest == render_block(r.synth, L - 1)
         IN  [synth |-> rest.synth, out |-> <<r.out>> \o rest.out]

\* the engine of FMSynth::new with the attack and sustain sliders moved and the
\* note button clicked or not
StartSynth(a, su, on) ==
    LET s == FMSynth_new(SampleRate)
        e == [s.ops[0].envelope EXCEPT !.attack = a, !.sustain = su]
    IN  [s EXCEPT !.ops = [i \in OpIds |->
            [s.ops[i] EXCEPT !.envelope = IF on THEN Envelope_note_on(e) ELSE e]]]

InitBlocks ==
    /\ \E a \in Durations, su \in SustainLevels, on \in BOOLEAN :
           synth = StartSynth(a, su, on)
    /\ arg = [fn |-> "render_block", start |-> synth]
    /\ res = <<>>
    /\ locked = FALSE
    /\ apc = "idle" /\ buf = <<>> /\ slot = 1 /\ k = 3 /\ m = NoLocals
    /\ upc = "idle" /\ panel = 0 /\ fan = 0
    /\ note_on = synth.ops[0].envelope.active
    /\ heard = [i \in OpIds |-> note_on]
    /\ rendered = 0
    /\ edits = 0
    /\ live = <<>>
    /\ calls = <<>>
    /\ startEnv = Envelopes(synth)
    /\ env = Envelope_new(Ticks(10), Ticks(50), (600 * One) \div Milli, Ticks(200))
    /\ pre = env
    /\ last = "new"
    /\ relTime = -1
    /\ clean = FALSE
    /\ advances = -1

\* the callback returns: the guard is dropped and the device takes the buffer,
\* which is appended to what it has played
DeliverBlock ==
    /\ apc = "done"
    /\ apc' = "idle"
    /\ locked' = FALSE
    /\ res' = res \o buf
    /\ buf' = <<>>
    /\ calls' = <<>>
    /\ startEnv' = Envelopes(synth)
    /\ UNCHANGED <<synth, slot, k, m, rendered, uiVars, envVars, arg>>

NextBlocks ==
    \/ AudioLock
    \/ RenderSample
    \/ DeliverBlock

SpecBlocks == InitBlocks /\ [][NextBlocks]_vars

\* C15: when the callbacks that follow a state of the engine, with no update in
\* between, have returned, the samples they delivered one after the other and
\* the engine they leave are those of one render_block call on that state with a
\* buffer as long as all of theirs together: splitting the buffer changes
\* neither the samples nor the final engine.
C15_BlockSplitIndependent ==
    (arg.fn = "render_block" /\ apc = "idle") =>
        LET whole == render_block(arg.start, Len(res))
        IN  /\ res = whole.out
            /\ synth = whole.synth

\* C15 witness: two samples were delivered by two callbacks (the last one had a
\* buffer of one slot), they differ, and the engine moved.
C15_Witness ==
    /\ arg.fn = "render_block"
    /\ apc = "idle"
    /\ Len(res) = 2
    /\ slot = 2
    /\ res[1] # 0
    /\ res[2] # res[1]
    /\ synth # arg.start

(* --------------------- the release, followed tick by tick ------------------- *)
\* an envelope of Envelope::new with the sustain slider anywhere from 0.0 to 1.0,
\* the smallest level above 0.0 included
InitRelease ==
    /\ \E a \in Durations, d \in Durations, r \in Durations :
       \E su \in SustainLevels \cup {1} :
           env = Envelope_new(a, d, su, r)
    /\ pre = env
    /\ last = "new"
    /\ relTime = -1
    /\ clean = FALSE
    /\ advances = -1
    /\ InitEngineVars
    /\ NoCall

\* Envelope::note_off on an envelope that is not releasing already: the release
\* is followed from here
NoteOffHeld ==
    /\ env.phase # 3
    /\ pre' = env
    /\ env' = Envelope_note_off(env)
    /\ last' = "note_off"
    /\ relTime' = IF env.active THEN 0 ELSE -1
    /\ clean' = FALSE
    /\ advances' = advances
    /\ UNCHANGED <<engVars, pureVars>>

\* Envelope::advance, called for as long as the release is followed
AdvanceHeld ==
    \E dt \in Dts :
        /\ relTime < MaxHold
        /\ pre' = env
        /\ env' = Envelope_advance(env, dt)
        /\ last' = "advance"
        /\ relTime' = IF relTime >= 0 THEN relTime + dt ELSE -1
        /\ clean' = clean
        /\ advances' = IF advances >= 0 THEN Min(advances + 1, 2) ELSE -1
        /\ UNCHANGED <<engVars, pureVars>>

NextRelease ==
    \/ NoteOn
    \/ NoteOffHeld
    \/ AdvanceHeld

SpecRelease == InitRelease /\ [][NextRelease]_vars

\* C19 (as stated), for a release that is at level 1.0: with sustain > 0 and
\* release > 0, repeated advance calls with one dt make the envelope inactive.
\* advance is a function of the envelope and dt, so the calls end the release
\* exactly if no call leaves a releasing envelope as it found it: every advance
\* in Release lowers the level or makes the envelope inactive.
C19_ReleaseEnds ==
    (last = "advance" /\ Stage(pre) = "Release" /\ pre.sustain > 0 /\ pre.level = One) =>
        (~env.active \/ env.level < pre.level)
====
